---- MODULE Spec2Model ----
(***************************************************************************)
(* The ingredient aggregation engine of components/grocery_list.py:        *)
(* _parse_quantity, _try_convert and combine_ingredients.                  *)
(*                                                                         *)
(* A Python str is modelled as a sequence of one-character strings, so     *)
(* that the regular expression, strip, split, lower and the string         *)
(* comparison of sorted() are computed character by character.  A float    *)
(* quantity is modelled as the exact non-negative rational <<n, d>> in     *)
(* lowest terms (binary rounding is not modelled); the one float effect    *)
(* that changes control flow, float() of a Fraction beyond the float       *)
(* range raising OverflowError, is modelled (see NineRun).                 *)
(***************************************************************************)
EXTENDS Integers, Sequences, FiniteSets, TLC

VARIABLES
    pc,        \* position of the operation the specification runs
    recipes,   \* combine_ingredients: the argument, a list of ingredient lists
    ri,        \* combine_ingredients: index of the recipe the outer loop is at
    li,        \* combine_ingredients: index of the line the inner loop is at
    merged,    \* combine_ingredients: the dict `merged`, in insertion order
    result,    \* combine_ingredients: the returned list
    text,      \* _parse_quantity: the argument
    parsed,    \* _parse_quantity: the returned tuple, or the exception raised
    cqty,      \* _try_convert: argument qty
    cfrom,     \* _try_convert: argument from_unit
    cto,       \* _try_convert: argument to_unit
    cret,      \* _try_convert: the returned value
    grocery_checked,  \* grocery_list_ui: st.session_state.grocery_checked, <<key, flag>> rows
    items,     \* grocery_list_ui: the list the last run has combined
    event,     \* grocery_list_ui: the widget interaction the run is started with
    last,      \* grocery_list_ui: what the run comes after: "select", "clear", "toggle", "pool"
    done,      \* grocery_list_ui: the summary caption, items checked off
    total      \* grocery_list_ui: the summary caption, items listed

vars ==
    <<pc, recipes, ri, li, merged, result, text, parsed, cqty, cfrom, cto, cret,
      grocery_checked, items, event, last, done, total>>

\* the state of grocery_list_ui
uiVars == <<grocery_checked, items, event, last, done, total>>

(***************************************************************************)
(* Bounds of the model.                                                    *)
(***************************************************************************)
\* longest line handed to _parse_quantity on its own
MaxLen == 4
\* most ingredient lines in one call of combine_ingredients (all recipes)
MaxLines == 3
\* largest integer amount handed to _try_convert on its own
MaxAmount == 5

(***************************************************************************)
(* Tables of the module.                                                   *)
(***************************************************************************)
\* UNIT_ALIASES: <<raw unit, canonical unit>>
UNIT_ALIASES ==
    { <<<<"t", "a", "b", "l", "e", "s", "p", "o", "o", "n">>, <<"t", "b", "s", "p">>>>,
      <<<<"t", "a", "b", "l", "e", "s", "p", "o", "o", "n", "s">>, <<"t", "b", "s", "p">>>>,
      <<<<"t", "b", "s", "p", "s">>, <<"t", "b", "s", "p">>>>,
      <<<<"t", "b", "s">>, <<"t", "b", "s", "p">>>>,
      <<<<"T">>, <<"t", "b", "s", "p">>>>,
      <<<<"t", "e", "a", "s", "p", "o", "o", "n">>, <<"t", "s", "p">>>>,
      <<<<"t", "e", "a", "s", "p", "o", "o", "n", "s">>, <<"t", "s", "p">>>>,
      <<<<"t", "s", "p", "s">>, <<"t", "s", "p">>>>,
      <<<<"t">>, <<"t", "s", "p">>>>,
      <<<<"c", "u", "p">>, <<"c", "u", "p">>>>,
      <<<<"c", "u", "p", "s">>, <<"c", "u", "p">>>>,
      <<<<"c">>, <<"c", "u", "p">>>>,
      <<<<"o", "u", "n", "c", "e">>, <<"o", "z">>>>,
      <<<<"o", "u", "n", "c", "e", "s">>, <<"o", "z">>>>,
      <<<<"p", "o", "u", "n", "d">>, <<"l", "b">>>>,
      <<<<"p", "o", "u", "n", "d", "s">>, <<"l", "b">>>>,
      <<<<"l", "b", "s">>, <<"l", "b">>>>,
      <<<<"g", "r", "a", "m">>, <<"g">>>>,
      <<<<"g", "r", "a", "m", "s">>, <<"g">>>>,
      <<<<"k", "i", "l", "o", "g", "r", "a", "m">>, <<"k", "g">>>>,
      <<<<"k", "i", "l", "o", "g", "r", "a", "m", "s">>, <<"k", "g">>>>,
      <<<<"m", "i", "l", "l", "i", "l", "i", "t", "e", "r">>, <<"m", "l">>>>,
      <<<<"m", "i", "l", "l", "i", "l", "i", "t", "e", "r", "s">>, <<"m", "l">>>>,
      <<<<"m", "i", "l", "l", "i", "l", "i", "t", "r", "e", "s">>, <<"m", "l">>>>,
      <<<<"l", "i", "t", "e", "r">>, <<"l">>>>,
      <<<<"l", "i", "t", "e", "r", "s">>, <<"l">>>>,
      <<<<"l", "i", "t", "r", "e", "s">>, <<"l">>>>,
      <<<<"l", "i", "t", "r", "e">>, <<"l">>>>,
      <<<<"p", "i", "n", "c", "h">>, <<"p", "i", "n", "c", "h">>>>,
      <<<<"p", "i", "n", "c", "h", "e", "s">>, <<"p", "i", "n", "c", "h">>>>,
      <<<<"c", "l", "o", "v", "e">>, <<"c", "l", "o", "v", "e">>>>,
      <<<<"c", "l", "o", "v", "e", "s">>, <<"c", "l", "o", "v", "e">>>>,
      <<<<"c", "a", "n">>, <<"c", "a", "n">>>>,
      <<<<"c", "a", "n", "s">>, <<"c", "a", "n">>>>,
      <<<<"b", "u", "n", "c", "h">>, <<"b", "u", "n", "c", "h">>>>,
      <<<<"b", "u", "n", "c", "h", "e", "s">>, <<"b", "u", "n", "c", "h">>>>,
      <<<<"s", "l", "i", "c", "e">>, <<"s", "l", "i", "c", "e">>>>,
      <<<<"s", "l", "i", "c", "e", "s">>, <<"s", "l", "i", "c", "e">>>>,
      <<<<"p", "i", "e", "c", "e">>, <<"p", "i", "e", "c", "e">>>>,
      <<<<"p", "i", "e", "c", "e", "s">>, <<"p", "i", "e", "c", "e">>>> }

\* CONVERTIBLE: <<smaller unit, larger unit, factor>>, factor smaller = 1 larger
CONVERTIBLE ==
    { <<<<"t", "s", "p">>, <<"t", "b", "s", "p">>, 3>>,
      <<<<"t", "b", "s", "p">>, <<"c", "u", "p">>, 16>>,
      <<<<"g">>, <<"k", "g">>, 1000>>,
      <<<<"m", "l">>, <<"l">>, 1000>>,
      <<<<"o", "z">>, <<"l", "b">>, 16>> }

\* _VULGAR_MAP: <<glyph, "n/d">>; a glyph is written as its code point, "U+00BD" for the
\* one character VULGAR FRACTION ONE HALF
_VULGAR_MAP ==
    { <<"U+00BD", <<"1", "/", "2">>>>,
      <<"U+2153", <<"1", "/", "3">>>>,
      <<"U+2154", <<"2", "/", "3">>>>,
      <<"U+00BC", <<"1", "/", "4">>>>,
      <<"U+00BE", <<"3", "/", "4">>>>,
      <<"U+2155", <<"1", "/", "5">>>>,
      <<"U+2156", <<"2", "/", "5">>>>,
      <<"U+2157", <<"3", "/", "5">>>>,
      <<"U+2158", <<"4", "/", "5">>>>,
      <<"U+2159", <<"1", "/", "6">>>>,
      <<"U+215A", <<"5", "/", "6">>>>,
      <<"U+215B", <<"1", "/", "8">>>>,
      <<"U+215C", <<"3", "/", "8">>>>,
      <<"U+215D", <<"5", "/", "8">>>>,
      <<"U+215E", <<"7", "/", "8">>>> }

(***************************************************************************)
(* Characters.                                                             *)
(***************************************************************************)
\* str.lower() on the ASCII letters; every other character is its own lower
UpperToLower ==
    { <<"A", "a">>, <<"B", "b">>, <<"C", "c">>, <<"D", "d">>, <<"E", "e">>, <<"F", "f">>,
      <<"G", "g">>, <<"H", "h">>, <<"I", "i">>, <<"J", "j">>, <<"K", "k">>, <<"L", "l">>,
      <<"M", "m">>, <<"N", "n">>, <<"O", "o">>, <<"P", "p">>, <<"Q", "q">>, <<"R", "r">>,
      <<"S", "s">>, <<"T", "t">>, <<"U", "u">>, <<"V", "v">>, <<"W", "w">>, <<"X", "x">>,
      <<"Y", "y">>, <<"Z", "z">> }

\* ord() of the characters the model compares
CodePoint ==
    { <<"\t", 9>>, <<"\n", 10>>, <<"\r", 13>>,
      <<" ", 32>>, <<",", 44>>, <<"-", 45>>, <<".", 46>>, <<"/", 47>>,
      <<"0", 48>>, <<"1", 49>>, <<"2", 50>>, <<"3", 51>>, <<"4", 52>>,
      <<"5", 53>>, <<"6", 54>>, <<"7", 55>>, <<"8", 56>>, <<"9", 57>>,
      <<"A", 65>>, <<"B", 66>>, <<"C", 67>>, <<"D", 68>>, <<"E", 69>>, <<"F", 70>>,
      <<"G", 71>>, <<"H", 72>>, <<"I", 73>>, <<"J", 74>>, <<"K", 75>>, <<"L", 76>>,
      <<"M", 77>>, <<"N", 78>>, <<"O", 79>>, <<"P", 80>>, <<"Q", 81>>, <<"R", 82>>,
      <<"S", 83>>, <<"T", 84>>, <<"U", 85>>, <<"V", 86>>, <<"W", 87>>, <<"X", 88>>,
      <<"Y", 89>>, <<"Z", 90>>,
      <<"a", 97>>, <<"b", 98>>, <<"c", 99>>, <<"d", 100>>, <<"e", 101>>, <<"f", 102>>,
      <<"g", 103>>, <<"h", 104>>, <<"i", 105>>, <<"j", 106>>, <<"k", 107>>, <<"l", 108>>,
      <<"m", 109>>, <<"n", 110>>, <<"o", 111>>, <<"p", 112>>, <<"q", 113>>, <<"r", 114>>,
      <<"s", 115>>, <<"t", 116>>, <<"u", 117>>, <<"v", 118>>, <<"w", 119>>, <<"x", 120>>,
      <<"y", 121>>, <<"z", 122>>,
      <<"U+00BD", 189>>, <<"U+2153", 8531>>, <<"U+2154", 8532>>, <<"U+00BC", 188>>, <<"U+00BE", 190>>,
      <<"U+2155", 8533>>, <<"U+2156", 8534>>, <<"U+2157", 8535>>, <<"U+2158", 8536>>, <<"U+2159", 8537>>,
      <<"U+215A", 8538>>, <<"U+215B", 8539>>, <<"U+215C", 8540>>, <<"U+215D", 8541>>, <<"U+215E", 8542>>,
      <<"+", 43>> }



\* One element that stands for 400 consecutive characters "9": a digit run
\* whose value is beyond the largest float (about 1.8e308).
NineRun == "9{400}"

Digit == {"0", "1", "2", "3", "4", "5", "6", "7", "8", "9"}

\* \d of the regular expression
DigitChars == Digit \cup {NineRun}

\* \s of the regular expression, and what str.strip() and str.split() remove
Whitespace == {" ", "\t", "\n", "\r"}

Letter == {e[1] : e \in UpperToLower} \cup {e[2] : e \in UpperToLower}

VulgarGlyph == {e[1] : e \in _VULGAR_MAP}

\* dict.get(k, default) on a table of <<key, value, ...>> rows
Get(table, k, default) ==
    IF \E e \in table : e[1] = k
    THEN (CHOOSE e \in table : e[1] = k)[2]
    ELSE default

\* CodePoint and UpperToLower as functions of the character
OrdOf == [c \in {e[1] : e \in CodePoint} |-> (CHOOSE e \in CodePoint : e[1] = c)[2]]

LowerOf == [c \in {e[1] : e \in UpperToLower} |-> (CHOOSE e \in UpperToLower : e[1] = c)[2]]

Ord(c) == OrdOf[c]

(***************************************************************************)
(* str methods.                                                            *)
(***************************************************************************)
\* the first index from i on whose character is not in Cs, Len(s) + 1 if none
RECURSIVE SkipIn(_, _, _)
SkipIn(s, Cs, i) ==
    IF i > Len(s) \/ s[i] \notin Cs THEN i ELSE SkipIn(s, Cs, i + 1)

\* the first index from i on whose character is in Cs, Len(s) + 1 if none
RECURSIVE SkipNotIn(_, _, _)
SkipNotIn(s, Cs, i) ==
    IF i > Len(s) \/ s[i] \in Cs THEN i ELSE SkipNotIn(s, Cs, i + 1)

\* the last index up to i whose character is not in Cs, 0 if none
RECURSIVE SkipBackIn(_, _, _)
SkipBackIn(s, Cs, i) ==
    IF i < 1 \/ s[i] \notin Cs THEN i ELSE SkipBackIn(s, Cs, i - 1)

\* length of the longest prefix of s made of characters in Cs
LeadRun(s, Cs) == SkipIn(s, Cs, 1) - 1

\* length of the longest prefix of s made of characters not in Cs
LeadRunNot(s, Cs) == SkipNotIn(s, Cs, 1) - 1

\* length of the longest suffix of s made of characters in Cs
TrailRun(s, Cs) == Len(s) - SkipBackIn(s, Cs, Len(s))

lstrip(s, Cs) == SubSeq(s, LeadRun(s, Cs) + 1, Len(s))

rstrip(s, Cs) == SubSeq(s, 1, Len(s) - TrailRun(s, Cs))

\* s.strip(Cs); s.strip() is strip(s, Whitespace)
strip(s, Cs) == rstrip(lstrip(s, Cs), Cs)

lower(s) == [i \in 1..Len(s) |-> IF s[i] \in DOMAIN LowerOf THEN LowerOf[s[i]] ELSE s[i]]

\* s.split(): the maximal runs of non-whitespace characters
RECURSIVE split(_)
split(s) ==
    LET t == lstrip(s, Whitespace)
        n == LeadRunNot(t, Whitespace)
    IN  IF t = <<>> THEN <<>>
        ELSE <<SubSeq(t, 1, n)>> \o split(SubSeq(t, n + 1, Len(t)))

\* a < b for two str: by code point, a proper prefix first
RECURSIVE StrLess(_, _)
StrLess(a, b) ==
    IF b = <<>> THEN FALSE
    ELSE IF a = <<>> THEN TRUE
    ELSE IF Head(a) = Head(b) THEN StrLess(Tail(a), Tail(b))
    ELSE Ord(Head(a)) < Ord(Head(b))

(***************************************************************************)
(* Exact rationals <<n, d>>, n >= 0, d > 0, in lowest terms.               *)
(***************************************************************************)
RECURSIVE GCD(_, _)
GCD(a, b) == IF b = 0 THEN a ELSE GCD(b, a % b)

Rat(n, d) == LET g == GCD(n, d) IN <<n \div g, d \div g>>

Zero == Rat(0, 1)

RatAdd(x, y) == Rat(x[1] * y[2] + y[1] * x[2], x[2] * y[2])

RatMul(x, k) == Rat(x[1] * k, x[2])

RatDiv(x, k) == Rat(x[1], x[2] * k)

RECURSIVE Pow10(_)
Pow10(k) == IF k = 0 THEN 1 ELSE 10 * Pow10(k - 1)

\* int() of a string of digits; a NineRun has no value the model can hold
RECURSIVE DigitsValue(_)
DigitsValue(s) ==
    IF s = <<>> THEN 0
    ELSE 10 * DigitsValue(SubSeq(s, 1, Len(s) - 1)) + (Ord(s[Len(s)]) - Ord("0"))

IsDigits(s) == \A i \in 1..Len(s) : s[i] \in DigitChars

\* a digit string too long for a float
IsHuge(s) == \E i \in 1..Len(s) : s[i] = NineRun

(***************************************************************************)
(* fractions.Fraction(p), for the strings _parse_quantity hands it: the    *)
(* parts of the quantity token, made of digits, "/" and ".".  Returns      *)
(* [err, huge, val]: err names the exception raised ("" for none), huge    *)
(* says the value is beyond the float range, val is the value otherwise.   *)
(* The forms accepted are those of the standard library's pattern: digits, *)
(* digits "/" digits, and a decimal with digits on at least one side of    *)
(* the point (a leading point needs a digit after it).  A NineRun is       *)
(* supported in the integer part and in the numerator only.                *)
(***************************************************************************)
FractionError(e) == [err |-> e, huge |-> FALSE, val |-> Zero]

FractionValue(v) == [err |-> "", huge |-> FALSE, val |-> v]

FractionHuge == [err |-> "", huge |-> TRUE, val |-> Zero]

Fraction(p) ==
    LET ns == LeadRun(p, DigitChars)
        num == SubSeq(p, 1, ns)
        rest == SubSeq(p, ns + 1, Len(p))
        lookahead == \/ Len(p) >= 1 /\ p[1] \in DigitChars
                     \/ Len(p) >= 2 /\ p[1] = "." /\ p[2] \in DigitChars
    IN  IF ~lookahead THEN FractionError("ValueError")
        ELSE IF rest = <<>> THEN
            IF IsHuge(num) THEN FractionHuge
            ELSE FractionValue(Rat(DigitsValue(num), 1))
        ELSE IF Head(rest) = "/" /\ Len(rest) >= 2 /\ IsDigits(Tail(rest)) THEN
            IF DigitsValue(Tail(rest)) = 0 THEN FractionError("ZeroDivisionError")
            ELSE IF IsHuge(num) THEN FractionHuge
            ELSE FractionValue(Rat(DigitsValue(num), DigitsValue(Tail(rest))))
        ELSE IF Head(rest) = "." /\ IsDigits(Tail(rest)) THEN
            IF IsHuge(num) THEN FractionHuge
            ELSE FractionValue(Rat(DigitsValue(num) * Pow10(Len(rest) - 1)
                                       + DigitsValue(Tail(rest)),
                                   Pow10(Len(rest) - 1)))
        ELSE FractionError("ValueError")

\* sum(...) of the values of a sequence of Fraction results
RECURSIVE SumValues(_)
SumValues(fs) ==
    IF fs = <<>> THEN Zero ELSE RatAdd(Head(fs).val, SumValues(Tail(fs)))

(***************************************************************************)
(* _QTY_RE.match(t): [ok, g1, g2, g3], the quantity, unit and name groups. *)
(* Every part after the quantity can match the empty string, so the        *)
(* quantity group is the longest run of quantity characters; the leading   *)
(* whitespace run gives its last character back when nothing else can      *)
(* start the quantity.  The name group stops at a line feed.               *)
(***************************************************************************)
QtyChars == DigitChars \cup Whitespace \cup {"/", "."} \cup VulgarGlyph

UnitChars == Letter \cup {"."}

_QTY_RE(t) ==
    LET ws == LeadRun(t, Whitespace)
        n1 == LeadRun(SubSeq(t, ws + 1, Len(t)), QtyChars)
        s1 == IF n1 > 0 THEN ws + 1 ELSE ws       \* first character of group 1
        e1 == IF n1 > 0 THEN ws + n1 ELSE ws      \* last character of group 1
        r2 == SubSeq(t, e1 + 1, Len(t))
        n2 == LeadRun(r2, UnitChars)
        r3 == lstrip(SubSeq(r2, n2 + 1, Len(r2)), Whitespace)
    IN  IF n1 = 0 /\ ws = 0
        THEN [ok |-> FALSE, g1 |-> <<>>, g2 |-> <<>>, g3 |-> <<>>]
        ELSE [ok |-> TRUE,
              g1 |-> SubSeq(t, s1, e1),
              g2 |-> SubSeq(r2, 1, n2),
              g3 |-> SubSeq(r3, 1, LeadRunNot(r3, {"\n"}))]

\* the loop over _VULGAR_MAP of str.replace: no replacement holds a glyph
RECURSIVE ReplaceVulgar(_)
ReplaceVulgar(s) ==
    IF s = <<>> THEN <<>>
    ELSE Get(_VULGAR_MAP, Head(s), <<Head(s)>>) \o ReplaceVulgar(Tail(s))

\* the characters name.strip(" ,.-\t") removes
NameTrim == {" ", ",", ".", "-", "\t"}

Returned(qty, unit, name) == [exc |-> "", qty |-> qty, unit |-> unit, name |-> name]

Raised(e) == [exc |-> e, qty |-> Zero, unit |-> <<>>, name |-> <<>>]

(***************************************************************************)
(* _parse_quantity(text): the tuple (qty, unit, name) returned, or the     *)
(* exception that leaves the function.                                     *)
(***************************************************************************)
_parse_quantity(line) ==
    LET t == strip(line, Whitespace)
        m == _QTY_RE(t)
        raw_qty == ReplaceVulgar(strip(m.g1, Whitespace))
        raw_unit == rstrip(strip(m.g2, Whitespace), {"."})
        parts == split(raw_qty)
        fs == [i \in 1..Len(parts) |-> Fraction(parts[i])]
        unit == Get(UNIT_ALIASES, raw_unit,
                    Get(UNIT_ALIASES, lower(raw_unit), lower(raw_unit)))
        name == strip(strip(m.g3, Whitespace), NameTrim)
    IN  IF ~m.ok THEN Returned(Zero, <<>>, t)
        ELSE IF \E i \in 1..Len(fs) : fs[i].err /= "" THEN Returned(Zero, <<>>, t)
        ELSE IF \E i \in 1..Len(fs) : fs[i].huge THEN Raised("OverflowError")
        ELSE IF name = <<>> /\ raw_unit /= <<>>
             THEN Returned(SumValues(fs), <<>>, raw_unit)
             ELSE Returned(SumValues(fs), unit, name)

(***************************************************************************)
(* _try_convert(qty, from_unit, to_unit): the converted quantity, or None. *)
(***************************************************************************)
None == <<>>

Factor(small, large) ==
    (CHOOSE e \in CONVERTIBLE : e[1] = small /\ e[2] = large)[3]

InConvertible(small, large) ==
    \E e \in CONVERTIBLE : e[1] = small /\ e[2] = large

\* faulty variant: the division and the multiplication exchanged
_try_convert_swapped(qty, from_unit, to_unit) ==
    IF from_unit = to_unit THEN qty
    ELSE IF InConvertible(from_unit, to_unit)
         THEN RatMul(qty, Factor(from_unit, to_unit))
    ELSE IF InConvertible(to_unit, from_unit)
         THEN RatDiv(qty, Factor(to_unit, from_unit))
    ELSE None

\* faulty variant: two tabulated pairs are chained through a third unit
_try_convert_chained(qty, from_unit, to_unit) ==
    LET direct(q, f, t) ==
            IF f = t THEN q
            ELSE IF InConvertible(f, t) THEN RatDiv(q, Factor(f, t))
            ELSE IF InConvertible(t, f) THEN RatMul(q, Factor(t, f))
            ELSE None
        units == {e[1] : e \in CONVERTIBLE} \cup {e[2] : e \in CONVERTIBLE}
        via == {w \in units : /\ direct(qty, from_unit, w) /= None
                              /\ direct(direct(qty, from_unit, w), w, to_unit) /= None}
    IN  IF direct(qty, from_unit, to_unit) /= None THEN direct(qty, from_unit, to_unit)
        ELSE IF via /= {}
             THEN LET w == CHOOSE w \in via : TRUE
                  IN  direct(direct(qty, from_unit, w), w, to_unit)
        ELSE None

\* faulty variant: only the tabulated direction converts
_try_convert_oneway(qty, from_unit, to_unit) ==
    IF from_unit = to_unit THEN qty
    ELSE IF InConvertible(from_unit, to_unit)
         THEN RatDiv(qty, Factor(from_unit, to_unit))
    ELSE None

_try_convert(qty, from_unit, to_unit) ==
    IF from_unit = to_unit THEN qty
    ELSE IF InConvertible(from_unit, to_unit)
         THEN RatDiv(qty, Factor(from_unit, to_unit))
    ELSE IF InConvertible(to_unit, from_unit)
         THEN RatMul(qty, Factor(to_unit, from_unit))
    ELSE None

(***************************************************************************)
(* combine_ingredients.  The dict `merged` is the sequence of its values   *)
(* in insertion order, each carrying its key; an item of the returned list *)
(* is the value alone.                                                     *)
(***************************************************************************)
\* faulty variant: the key is not lowercased
KeyOfNoLower(name) == strip(name, Whitespace)

\* key = name.lower().strip()
KeyOf(name) == strip(lower(name), Whitespace)

HasKey(m, key) == \E i \in 1..Len(m) : m[i].key = key

IndexOfKey(m, key) == CHOOSE i \in 1..Len(m) : m[i].key = key

\* faulty variant: the composite names the new unit first
MergeUnitsNewUnitFirst(existing, qty, unit) ==
    IF unit /= <<>> /\ existing.unit /= <<>> THEN
        LET converted == _try_convert(qty, unit, existing.unit)
            converted_rev == _try_convert(existing.qty, existing.unit, unit)
        IN  IF converted /= None
            THEN [existing EXCEPT !.qty = RatAdd(@, converted)]
            ELSE IF converted_rev /= None
            THEN [existing EXCEPT !.qty = RatAdd(converted_rev, qty), !.unit = unit]
            ELSE [existing EXCEPT !.qty = RatAdd(@, qty),
                                  !.unit = IF unit /= @ THEN unit \o <<"+">> \o @ ELSE @]
    ELSE [existing EXCEPT !.qty = RatAdd(@, qty),
                          !.unit = IF @ /= <<>> THEN @ ELSE unit]

\* faulty variant: an empty existing unit is not replaced by the line's unit
MergeUnitsKeepEmpty(existing, qty, unit) ==
    IF unit /= <<>> /\ existing.unit /= <<>> THEN
        LET converted == _try_convert(qty, unit, existing.unit)
            converted_rev == _try_convert(existing.qty, existing.unit, unit)
        IN  IF converted /= None
            THEN [existing EXCEPT !.qty = RatAdd(@, converted)]
            ELSE IF converted_rev /= None
            THEN [existing EXCEPT !.qty = RatAdd(converted_rev, qty), !.unit = unit]
            ELSE [existing EXCEPT !.qty = RatAdd(@, qty),
                                  !.unit = IF unit /= @ THEN @ \o <<"+">> \o unit ELSE @]
    ELSE [existing EXCEPT !.qty = RatAdd(@, qty)]

\* the branches of `if key in merged`, before the append to raw_sources
MergeUnits(existing, qty, unit) ==
    IF unit /= <<>> /\ existing.unit /= <<>> THEN
        LET converted == _try_convert(qty, unit, existing.unit)
            converted_rev == _try_convert(existing.qty, existing.unit, unit)
        IN  IF converted /= None
            THEN [existing EXCEPT !.qty = RatAdd(@, converted)]
            ELSE IF converted_rev /= None
            THEN [existing EXCEPT !.qty = RatAdd(converted_rev, qty), !.unit = unit]
            ELSE [existing EXCEPT !.qty = RatAdd(@, qty),
                                  !.unit = IF unit /= @ THEN @ \o <<"+">> \o unit ELSE @]
    ELSE [existing EXCEPT !.qty = RatAdd(@, qty),
                          !.unit = IF @ /= <<>> THEN @ ELSE unit]

\* faulty variant: a merged line is not appended to raw_sources
MergeExistingNoAppend(m, key, p, line) ==
    LET i == IndexOfKey(m, key)
    IN  [m EXCEPT ![i] = MergeUnits(m[i], p.qty, p.unit)]

\* faulty variant: a merged line replaces raw_sources
MergeExistingReplace(m, key, p, line) ==
    LET i == IndexOfKey(m, key)
    IN  [m EXCEPT ![i] = [MergeUnits(m[i], p.qty, p.unit)
                              EXCEPT !.raw_sources = <<line>>]]

\* faulty variant: a merged line is put in front of raw_sources
MergeExistingPrepend(m, key, p, line) ==
    LET i == IndexOfKey(m, key)
    IN  [m EXCEPT ![i] = [MergeUnits(m[i], p.qty, p.unit)
                              EXCEPT !.raw_sources = <<line>> \o @]]

\* faulty variant: a merged line overwrites the name of the item
MergeExistingRename(m, key, p, line) ==
    LET i == IndexOfKey(m, key)
    IN  [m EXCEPT ![i] = [MergeUnits(m[i], p.qty, p.unit)
                              EXCEPT !.raw_sources = Append(@, line),
                                     !.name = p.name]]

\* `if key in merged`: the merge and the append to raw_sources
MergeExisting(m, key, p, line) ==
    LET i == IndexOfKey(m, key)
    IN  [m EXCEPT ![i] = [MergeUnits(m[i], p.qty, p.unit)
                              EXCEPT !.raw_sources = Append(@, line)]]

InsertNew(m, key, p, line) ==
    Append(m, [key |-> key, name |-> p.name, qty |-> p.qty, unit |-> p.unit,
               raw_sources |-> <<line>>])

\* sorted(..., key=lambda x: x["name"].lower()): a stable sort
RECURSIVE InsertSorted(_, _)
InsertSorted(s, x) ==
    IF s = <<>> THEN <<x>>
    ELSE IF StrLess(lower(x.name), lower(Head(s).name)) THEN <<x>> \o s
    ELSE <<Head(s)>> \o InsertSorted(Tail(s), x)

RECURSIVE sorted(_)
sorted(s) ==
    IF s = <<>> THEN <<>>
    ELSE InsertSorted(sorted(SubSeq(s, 1, Len(s) - 1)), s[Len(s)])

Values(m) ==
    [i \in 1..Len(m) |-> [name |-> m[i].name, qty |-> m[i].qty, unit |-> m[i].unit,
                          raw_sources |-> m[i].raw_sources]]

\* the lines of all recipes in encounter order
RECURSIVE Flatten(_)
Flatten(rs) == IF rs = <<>> THEN <<>> ELSE Head(rs) \o Flatten(Tail(rs))

\* the ingredient lines the recipes are made of
Pool ==
    { <<"1", " ", "T", " ", "o">>,
      <<"2", " ", "t", " ", "o">>,
      <<"1", " ", "c", " ", "O">>,
      <<"2", "0", "0", " ", "g", " ", "o">>,
      <<"3", " ", "o">>,
      <<"2">>,
      <<"1", " ", "c", " ", "o", "\r", ".">>,
      <<"1", " ", "c", " ", "o", "\t", "b">>,
      <<"1", "/", "0", " ", "o">>,
      <<NineRun, " ", "g", " ", "o">> }

\* _parse_quantity(line) for the lines of the pool, computed once
ParsedPool == [line \in Pool |-> _parse_quantity(line)]

ParseLine(line) == ParsedPool[line]

\* the two loops over a flat list of lines, from `merged` = m: [exc, merged]
RECURSIVE MergeLines(_, _)
MergeLines(m, lines) ==
    IF lines = <<>> THEN [exc |-> "", merged |-> m]
    ELSE LET line == Head(lines)
             p == ParseLine(line)
             key == KeyOf(p.name)
         IN  IF p.exc /= "" THEN [exc |-> p.exc, merged |-> m]
             ELSE IF key = <<>> THEN MergeLines(m, Tail(lines))
             ELSE IF HasKey(m, key)
                  THEN MergeLines(MergeExisting(m, key, p, line), Tail(lines))
                  ELSE MergeLines(InsertNew(m, key, p, line), Tail(lines))

\* combine_ingredients(rs) as a function of its argument: [exc, result]
\* `return sorted(merged.values(), ...)` after the loops, unless a line has raised
Returning(r) ==
    [exc |-> r.exc, result |-> IF r.exc = "" THEN sorted(Values(r.merged)) ELSE <<>>]

combine_ingredients(rs) == Returning(MergeLines(<<>>, Flatten(rs)))

(***************************************************************************)
(* Inputs.                                                                 *)
(***************************************************************************)
Seqs(S, n) == UNION {[1..k -> S] : k \in 0..n}

\* the lines f as the argument: no recipe, one recipe, or split over two recipes
RecipesOf(f) ==
    (IF f = <<>> THEN {<<>>} ELSE {})
        \cup {<<f>>}
        \cup {<<SubSeq(f, 1, k), SubSeq(f, k + 1, Len(f))>> : k \in 0..Len(f)}

\* the characters of the lines _parse_quantity is run on alone
ParseAlphabet == {"0", "1", "2", "/", ".", " ", ",", "c", "U+00BD"}

\* the lines of at most n characters, and four lines with a quantity beyond the float range
ParseInputs(n) ==
    Seqs(ParseAlphabet, n)
        \cup { <<NineRun>>, <<NineRun, " ", "c">>, <<"1", " ", NineRun, " ", "c">>,
               <<NineRun, "/", "0">> }

ConvertUnits == {e[1] : e \in CONVERTIBLE} \cup {e[2] : e \in CONVERTIBLE}
                    \cup {<<"c", "a", "n">>, <<"c", "u", "p", "+", "g">>}

\* the amounts n and n/2 up to max
ConvertAmounts(max) == {Rat(n, d) : n \in 0..max, d \in 1..2}

NotCalled == Raised("not called")

(***************************************************************************)
(* Specification of combine_ingredients: one step per pass of the inner    *)
(* loop body, per exhausted recipe, and for the return.                    *)
(***************************************************************************)
IdleParse == text = <<>> /\ parsed = NotCalled

IdleConvert == cqty = Zero /\ cfrom = <<>> /\ cto = <<>> /\ cret = None

IdleCombine == recipes = <<>> /\ ri = 1 /\ li = 1 /\ merged = <<>> /\ result = <<>>

\* no widget has been touched
NoEvent == [widget |-> "none", index |-> 0]

IdleUI ==
    /\ grocery_checked = {} /\ items = <<>> /\ event = NoEvent /\ last = "none"
    /\ done = 0 /\ total = 0

Init ==
    /\ pc = "loop"
    /\ \E f \in Seqs(Pool, MaxLines) : recipes \in RecipesOf(f)
    /\ ri = 1 /\ li = 1 /\ merged = <<>> /\ result = <<>>
    /\ IdleParse /\ IdleConvert /\ IdleUI

InLoop == pc = "loop" /\ ri <= Len(recipes) /\ li <= Len(recipes[ri])

CurLine == recipes[ri][li]

CurParsed == ParseLine(CurLine)

CurKey == KeyOf(CurParsed.name)

\* _parse_quantity raises: the exception leaves combine_ingredients
LineRaises ==
    /\ InLoop
    /\ CurParsed.exc /= ""
    /\ pc' = "raised"
    /\ UNCHANGED <<recipes, ri, li, merged, result, text, parsed, cqty, cfrom, cto, cret, uiVars>>

\* `if not key: continue`
LineSkipped ==
    /\ InLoop
    /\ CurParsed.exc = ""
    /\ CurKey = <<>>
    /\ li' = li + 1
    /\ UNCHANGED <<pc, recipes, ri, merged, result, text, parsed, cqty, cfrom, cto, cret, uiVars>>

\* `if key in merged`
LineMerged ==
    /\ InLoop
    /\ CurParsed.exc = ""
    /\ CurKey /= <<>>
    /\ HasKey(merged, CurKey)
    /\ merged' = MergeExisting(merged, CurKey, CurParsed, CurLine)
    /\ li' = li + 1
    /\ UNCHANGED <<pc, recipes, ri, result, text, parsed, cqty, cfrom, cto, cret, uiVars>>

\* `else`: the first line of its key
LineInserted ==
    /\ InLoop
    /\ CurParsed.exc = ""
    /\ CurKey /= <<>>
    /\ ~HasKey(merged, CurKey)
    /\ merged' = InsertNew(merged, CurKey, CurParsed, CurLine)
    /\ li' = li + 1
    /\ UNCHANGED <<pc, recipes, ri, result, text, parsed, cqty, cfrom, cto, cret, uiVars>>

\* the inner loop is exhausted: the outer loop takes the next recipe
NextRecipe ==
    /\ pc = "loop"
    /\ ri <= Len(recipes)
    /\ li > Len(recipes[ri])
    /\ ri' = ri + 1
    /\ li' = 1
    /\ UNCHANGED <<pc, recipes, merged, result, text, parsed, cqty, cfrom, cto, cret, uiVars>>

\* `return sorted(merged.values(), ...)`
Return ==
    /\ pc = "loop"
    /\ ri > Len(recipes)
    /\ result' = sorted(Values(merged))
    /\ pc' = "done"
    /\ UNCHANGED <<recipes, ri, li, merged, text, parsed, cqty, cfrom, cto, cret, uiVars>>

Next == LineRaises \/ LineSkipped \/ LineMerged \/ LineInserted \/ NextRecipe \/ Return

Spec == Init /\ [][Next]_vars

(***************************************************************************)
(* Specification of _parse_quantity alone.                                 *)
(***************************************************************************)
InitParse ==
    /\ pc = "call"
    /\ text \in ParseInputs(MaxLen)
    /\ parsed = NotCalled
    /\ IdleCombine /\ IdleConvert /\ IdleUI

Parse ==
    /\ pc = "call"
    /\ parsed' = _parse_quantity(text)
    /\ pc' = IF parsed'.exc = "" THEN "returned" ELSE "raised"
    /\ UNCHANGED <<recipes, ri, li, merged, result, text, cqty, cfrom, cto, cret, uiVars>>

NextParse == Parse

SpecParse == InitParse /\ [][NextParse]_vars

(***************************************************************************)
(* Specification of _try_convert alone.                                    *)
(***************************************************************************)
InitConvert ==
    /\ pc = "call"
    /\ cqty \in ConvertAmounts(MaxAmount)
    /\ cfrom \in ConvertUnits
    /\ cto \in ConvertUnits
    /\ cret = None
    /\ IdleCombine /\ IdleParse /\ IdleUI

Convert ==
    /\ pc = "call"
    /\ cret' = _try_convert(cqty, cfrom, cto)
    /\ pc' = "returned"
    /\ UNCHANGED <<recipes, ri, li, merged, result, text, parsed, cqty, cfrom, cto, uiVars>>

NextConvert == Convert

SpecConvert == InitConvert /\ [][NextConvert]_vars

(***************************************************************************)
(* Vocabulary of the properties.                                           *)
(***************************************************************************)
\* a name lowercased and trimmed
NormName(name) == strip(lower(name), Whitespace)

\* the lines handed to combine_ingredients, in encounter order
InputLines == Flatten(recipes)

\* the grouping key of a line that parses
LineKey(line) == NormName(ParseLine(line).name)

\* a line the aggregator keeps: it parses and its grouping key is not empty
Accepted(line) == ParseLine(line).exc = "" /\ LineKey(line) /= <<>>

RECURSIVE CountSources(_)
CountSources(list) ==
    IF list = <<>> THEN 0
    ELSE Len(Head(list).raw_sources) + CountSources(Tail(list))

InSeq(x, s) == \E i \in 1..Len(s) : s[i] = x

\* <<u, v, f>> is a row of the conversion table
Tabulated(u, v, f) == <<u, v, f>> \in CONVERTIBLE

Factors == {e[3] : e \in CONVERTIBLE}

\* u converts to e: the same unit, or a tabulated pair in either direction
Convertible(u, e) ==
    u = e \/ \E f \in Factors : Tabulated(u, e, f) \/ Tabulated(e, u, f)

\* the loop body is about to merge the current line into an existing item
Merging == InLoop /\ CurParsed.exc = "" /\ CurKey /= <<>> /\ HasKey(merged, CurKey)

Existing == merged[IndexOfKey(merged, CurKey)]

tbsp == <<"t", "b", "s", "p">>

tsp == <<"t", "s", "p">>

cup == <<"c", "u", "p">>

\* every ordering of the sequence s
Orderings(s) ==
    {[i \in 1..Len(s) |-> s[p[i]]] : p \in Permutations(1..Len(s))}

\* the groups of a returned list: grouping key -> the item
GroupKeys(list) == {NormName(list[i].name) : i \in 1..Len(list)}

GroupOf(list, key) == list[CHOOSE i \in 1..Len(list) : NormName(list[i].name) = key]

\* how often line occurs in the sequence s
Occurrences(s, line) == Cardinality({i \in 1..Len(s) : s[i] = line})

\* the lines of s with how often each occurs
BagOfLines(s) == [x \in {s[i] : i \in 1..Len(s)} |-> Occurrences(s, x)]

\* the groups of a returned list: <<grouping key, its sources up to order>>
GroupSources(list) ==
    {<<NormName(list[i].name), BagOfLines(list[i].raw_sources)>> : i \in 1..Len(list)}

SameBag(s, t) ==
    /\ Len(s) = Len(t)
    /\ \A i \in 1..Len(s) : Occurrences(s, s[i]) = Occurrences(t, s[i])

ExactRational(p) ==
    LET slash == {i \in 1..Len(p) : p[i] = "/"}
        point == {i \in 1..Len(p) : p[i] = "."}
        digits == {i \in 1..Len(p) : p[i] \in DigitChars}
        zeros == {i \in 1..Len(p) : p[i] = "0"}
    IN  /\ digits \cup slash \cup point = 1..Len(p)
        /\ digits /= {}
        /\ \/ slash = {} /\ Cardinality(point) <= 1
           \/ /\ point = {} /\ Cardinality(slash) = 1
              /\ \E i \in slash : /\ 1 < i /\ i < Len(p)
                                  /\ \E j \in (i + 1)..Len(p) : j \notin zeros

\* the trimmed line starts with a quantity character
HasQuantityToken(t) == t /= <<>> /\ Head(t) \in QtyChars

QuantityToken(t) == SubSeq(t, 1, LeadRun(t, QtyChars))

Degrades(line) ==
    LET t == strip(line, Whitespace)
        parts == split(ReplaceVulgar(QuantityToken(t)))
    IN  \/ ~HasQuantityToken(t)
        \/ \E i \in 1..Len(parts) : ~ExactRational(parts[i])

C2_ParseNeverFails ==
    pc /= "call" =>
        /\ parsed.exc = ""
        /\ Degrades(text) => parsed = Returned(Zero, <<>>, strip(text, Whitespace))

(***************************************************************************)
(* C3.  Two input lines end up in the same output item iff their parsed    *)
(* names are equal after lowercasing and trimming: the lines of one item   *)
(* share one key, no two items share a key, every accepted line is in an   *)
(* item, and there are as many items as distinct keys of accepted lines.   *)
(***************************************************************************)
C3_GroupedByNormName ==
    pc = "done" =>
        /\ \A j \in 1..Len(result) : \A k \in 1..Len(result[j].raw_sources) :
               LineKey(result[j].raw_sources[k]) = NormName(result[j].name)
        /\ \A i, j \in 1..Len(result) :
               NormName(result[i].name) = NormName(result[j].name) => i = j
        /\ \A i \in 1..Len(InputLines) :
               Accepted(InputLines[i]) =>
                   \E j \in 1..Len(result) : InSeq(InputLines[i], result[j].raw_sources)
        /\ Len(result) =
               Cardinality({LineKey(InputLines[i]) :
                                i \in {k \in 1..Len(InputLines) : Accepted(InputLines[k])}})

\* names "o" and "O" share an item while "o\tb" has its own
C3_Witness ==
    /\ pc = "done"
    /\ Len(result) = 2
    /\ \E j \in 1..Len(result) :
           /\ InSeq(<<"1", " ", "T", " ", "o">>, result[j].raw_sources)
           /\ InSeq(<<"1", " ", "c", " ", "O">>, result[j].raw_sources)

(***************************************************************************)
(* C4.  When a line with unit u merges into an item with unit e, both not  *)
(* empty, and u converts to e, the item's qty becomes the old qty plus the *)
(* amount converted into e (a if u = e, a/f if (u, e) is tabulated with    *)
(* factor f, a*f if (e, u) is) and the item's unit stays e.                *)
(***************************************************************************)
ConvertedInto(a, u, e) ==
    IF u = e THEN a
    ELSE IF \E f \in Factors : Tabulated(u, e, f)
         THEN RatDiv(a, CHOOSE f \in Factors : Tabulated(u, e, f))
         ELSE RatMul(a, CHOOSE f \in Factors : Tabulated(e, u, f))

C4_ConvertibleMerge ==
    [][(/\ Merging
        /\ CurParsed.unit /= <<>> /\ Existing.unit /= <<>>
        /\ Convertible(CurParsed.unit, Existing.unit))
       => LET after == merged'[IndexOfKey(merged, CurKey)]
          IN  /\ after.qty = RatAdd(Existing.qty,
                                    ConvertedInto(CurParsed.qty, CurParsed.unit, Existing.unit))
              /\ after.unit = Existing.unit]_vars

\* "1 T o" then "2 t o": 1 tbsp + 2 tsp = 1 2/3 tbsp
C4_Witness ==
    \E i \in 1..Len(merged) :
        /\ merged[i].raw_sources = << <<"1", " ", "T", " ", "o">>, <<"2", " ", "t", " ", "o">> >>
        /\ merged[i].qty = Rat(5, 3)
        /\ merged[i].unit = tbsp

(***************************************************************************)
(* C5.  When a line with unit u merges into an item with unit e, both not  *)
(* empty, u differs from e and neither direction converts, the item's qty  *)
(* becomes the plain sum old qty + amount and its unit the composite       *)
(* e + "+" + u, the existing unit first.                                   *)
(***************************************************************************)
C5_IncompatibleMerge ==
    [][(/\ Merging
        /\ CurParsed.unit /= <<>> /\ Existing.unit /= <<>>
        /\ ~Convertible(CurParsed.unit, Existing.unit))
       => LET after == merged'[IndexOfKey(merged, CurKey)]
          IN  /\ after.qty = RatAdd(Existing.qty, CurParsed.qty)
              /\ after.unit = Existing.unit \o <<"+">> \o CurParsed.unit]_vars

\* "1 c O" then "200 g o": qty 201, unit "cup+g"
C5_Witness ==
    \E i \in 1..Len(merged) :
        /\ merged[i].raw_sources =
               << <<"1", " ", "c", " ", "O">>, <<"2", "0", "0", " ", "g", " ", "o">> >>
        /\ merged[i].qty = Rat(201, 1)
        /\ merged[i].unit = <<"c", "u", "p", "+", "g">>

(***************************************************************************)
(* C6.  When a line merges into an item and the line's unit or the item's  *)
(* unit is empty, the item's qty becomes old qty + amount, unconverted,    *)
(* and its unit the existing unit if that is not empty, else the line's.   *)
(***************************************************************************)
C6_EmptyUnitMerge ==
    [][(/\ Merging
        /\ CurParsed.unit = <<>> \/ Existing.unit = <<>>)
       => LET after == merged'[IndexOfKey(merged, CurKey)]
          IN  /\ after.qty = RatAdd(Existing.qty, CurParsed.qty)
              /\ after.unit = IF Existing.unit /= <<>> THEN Existing.unit
                              ELSE CurParsed.unit]_vars

\* "3 o" then "1 T o" then "3 o": the unit of the second line is taken, then kept
C6_Witness ==
    \E i \in 1..Len(merged) :
        /\ merged[i].raw_sources =
               << <<"3", " ", "o">>, <<"1", " ", "T", " ", "o">>, <<"3", " ", "o">> >>
        /\ merged[i].qty = Rat(7, 1)
        /\ merged[i].unit = tbsp

(***************************************************************************)
(* C7.  As claimed: any ordering of the same lines yields the same groups  *)
(* with the same qty and unit; only the order inside sources depends on    *)
(* the input order.                                                        *)
(***************************************************************************)
C7_OrderIndependent ==
    pc = "done" =>
        \A p \in Orderings(InputLines) :
            LET o == combine_ingredients(<<p>>)
            IN  /\ o.exc = ""
                /\ GroupKeys(o.result) = GroupKeys(result)
                /\ \A k \in GroupKeys(result) :
                       /\ GroupOf(o.result, k).qty = GroupOf(result, k).qty
                       /\ GroupOf(o.result, k).unit = GroupOf(result, k).unit
                       /\ SameBag(GroupOf(o.result, k).raw_sources,
                                  GroupOf(result, k).raw_sources)

(***************************************************************************)
(* C7, amended.  Any ordering of the same lines yields the same groups:    *)
(* the same grouping keys, each with the same lines in its sources up to   *)
(* their order; and combine_ingredients raises on every ordering if it     *)
(* raises on one.  The qty and the unit of a group depend on the order.    *)
(***************************************************************************)
C7_SameGroups ==
    /\ pc = "done" =>
           LET groups == GroupSources(result)
           IN  \A p \in Orderings(InputLines) :
                   LET o == combine_ingredients(<<p>>)
                   IN  /\ o.exc = ""
                       /\ Len(o.result) = Len(result)
                       /\ GroupSources(o.result) = groups
    /\ pc = "raised" =>
           \A p \in Orderings(InputLines) : combine_ingredients(<<p>>).exc /= ""

\* "1 T o", "2 t o" gives tbsp; the other ordering gives the same group in tsp
C7_Witness ==
    /\ pc = "done"
    /\ InputLines = << <<"1", " ", "T", " ", "o">>, <<"2", " ", "t", " ", "o">> >>
    /\ GroupOf(result, <<"o">>).unit = tbsp
    /\ \E p \in Orderings(InputLines) :
           LET o == combine_ingredients(<<p>>)
           IN  /\ GroupKeys(o.result) = {<<"o">>}
               /\ GroupOf(o.result, <<"o">>).unit = tsp
               /\ GroupOf(o.result, <<"o">>).qty = Rat(5, 1)

(***************************************************************************)
(* C8.  The returned list is sorted ascending by lowercased item name, and *)
(* any ordering of the same lines returns the same sequence of grouping    *)
(* keys.                                                                   *)
(***************************************************************************)
KeySequence(list) == [i \in 1..Len(list) |-> NormName(list[i].name)]

C8_SortedSameKeySequence ==
    pc = "done" =>
        /\ \A i, j \in 1..Len(result) :
               i < j => ~StrLess(lower(result[j].name), lower(result[i].name))
        /\ \A p \in Orderings(InputLines) :
               KeySequence(combine_ingredients(<<p>>).result) = KeySequence(result)

(***************************************************************************)
(* C9.  The sources of every output item are exactly the input lines with  *)
(* the item's grouping key, in encounter order (recipes in list order,     *)
(* lines in order within a recipe), one entry per line whichever merge     *)
(* branch was taken.                                                       *)
(***************************************************************************)
C9_SourcesInEncounterOrder ==
    pc = "done" =>
        \A j \in 1..Len(result) :
            result[j].raw_sources =
                SelectSeq(InputLines, LAMBDA l : LineKey(l) = NormName(result[j].name))

\* lines of two recipes, merged by conversion and by the composite fallback
C9_Witness ==
    /\ pc = "done"
    /\ Len(recipes) = 2 /\ Len(recipes[1]) = 1
    /\ \E j \in 1..Len(result) :
           /\ result[j].raw_sources =
                  << <<"1", " ", "T", " ", "o">>, <<"2", " ", "t", " ", "o">>,
                     <<"2", "0", "0", " ", "g", " ", "o">> >>
           /\ result[j].unit = <<"t", "b", "s", "p", "+", "g">>

(***************************************************************************)
(* C10.  _try_convert(a, u, v) returns a when u = v, a/f when (u, v) is    *)
(* tabulated with factor f, a*f when (v, u) is, and None for every other   *)
(* pair, pairs linked only through a third unit included:                  *)
(* convert(3, tsp, tbsp) = 1, convert(1, tbsp, tsp) = 3 and                *)
(* convert(5, tsp, cup) is None.                                           *)
(***************************************************************************)
C10_TryConvert ==
    pc = "returned" =>
        /\ cfrom = cto => cret = cqty
        /\ \A f \in Factors :
               Tabulated(cfrom, cto, f) => cret /= None /\ RatMul(cret, f) = cqty
        /\ \A f \in Factors :
               Tabulated(cto, cfrom, f) => cret = Rat(cqty[1] * f, cqty[2])
        /\ (cfrom /= cto /\ ~Convertible(cfrom, cto)) => cret = None
        /\ (cqty = Rat(3, 1) /\ cfrom = tsp /\ cto = tbsp) => cret = Rat(1, 1)
        /\ (cqty = Rat(1, 1) /\ cfrom = tbsp /\ cto = tsp) => cret = Rat(3, 1)
        /\ (cqty = Rat(5, 1) /\ cfrom = tsp /\ cto = cup) => cret = None

\* tsp and cup are linked through tbsp alone
C10_Witness ==
    /\ pc = "returned"
    /\ cqty = Rat(5, 1) /\ cfrom = tsp /\ cto = cup
    /\ cret = None
(***************************************************************************)
(* C11.  In every output item of combine_ingredients, name is the parsed,  *)
(* case-preserved name of the first input line met with the item's         *)
(* grouping key; later lines of the key, whatever their casing or          *)
(* surrounding whitespace, never change it.  The same holds of the items   *)
(* of `merged` while the loops run, for the lines taken so far.            *)
(***************************************************************************)
\* the index in lines of the first accepted line with grouping key k, 0 if none
FirstOfKey(lines, k) ==
    LET at == {i \in 1..Len(lines) : Accepted(lines[i]) /\ LineKey(lines[i]) = k}
    IN  IF at = {} THEN 0 ELSE CHOOSE i \in at : \A j \in at : i <= j

\* every item is named by the first of the lines with its key
NamedByFirst(list, lines) ==
    \A j \in 1..Len(list) :
        LET i == FirstOfKey(lines, NormName(list[j].name))
        IN  i > 0 /\ list[j].name = ParseLine(lines[i]).name

\* the lines the loops have taken so far
TakenLines ==
    IF ri > Len(recipes) THEN InputLines
    ELSE Flatten(SubSeq(recipes, 1, ri - 1)) \o SubSeq(recipes[ri], 1, li - 1)

C11_NameOfFirstLine ==
    /\ pc = "done" => NamedByFirst(result, InputLines)
    /\ pc = "loop" => NamedByFirst(merged, TakenLines)

\* "1 c O" names the item "O"; "2 t o" and "1 c o\r." (name "o\r") join it unchanged
C11_Witness ==
    /\ pc = "done"
    /\ InputLines = << <<"1", " ", "c", " ", "O">>, <<"2", " ", "t", " ", "o">>,
                       <<"1", " ", "c", " ", "o", "\r", ".">> >>
    /\ Len(result) = 1
    /\ result[1].name = <<"O">>
    /\ Len(result[1].raw_sources) = 3

(***************************************************************************)
(* C12.  After any sequence of lines merged into one grouping key, the     *)
(* unit of the item is empty, a single unit token, or exactly two          *)
(* incompatible unit tokens joined by one "+"; a third or later            *)
(* mismatching line, one whose unit is already in the composite included,  *)
(* does not make the unit grow beyond two joined units.                    *)
(***************************************************************************)
\* the positions of "+" in the unit u
PlusAt(u) == {i \in 1..Len(u) : u[i] = "+"}

\* u is empty, one token, or two incompatible tokens joined by one "+"
AtMostTwoUnits(u) ==
    \/ PlusAt(u) = {}
    \/ /\ Cardinality(PlusAt(u)) = 1
       /\ LET k == CHOOSE i \in PlusAt(u) : TRUE
              a == SubSeq(u, 1, k - 1)
              b == SubSeq(u, k + 1, Len(u))
          IN  a /= <<>> /\ b /= <<>> /\ ~Convertible(a, b)

C12_CompositeOfTwo ==
    /\ \A i \in 1..Len(merged) : AtMostTwoUnits(merged[i].unit)
    /\ \A j \in 1..Len(result) : AtMostTwoUnits(result[j].unit)

(***************************************************************************)
(* Specification of _try_convert and combine_ingredients together: a       *)
(* behaviour is a call of the one or of the other.                         *)
(***************************************************************************)
InitEither == Init \/ InitConvert

NextEither == Next \/ NextConvert

SpecEither == InitEither /\ [][NextEither]_vars

(***************************************************************************)
(* C13.  Incompatibility in _try_convert is symmetric: whatever the        *)
(* amounts a and b, _try_convert(a, u, v) is None exactly when             *)
(* _try_convert(b, v, u) is.  Hence combine_ingredients never takes the    *)
(* reverse-conversion branch: after a line with non-empty unit u merges    *)
(* into an item with non-empty unit e, the unit of the item is still e or  *)
(* the composite e + "+" + u, never u alone.                               *)
(***************************************************************************)
\* _try_convert has returned: the exchanged units give None for every amount, or for none
SymmetricNone ==
    pc = "returned" =>
        \A b \in ConvertAmounts(MaxAmount) :
            (cret = None) <=> (_try_convert(b, cto, cfrom) = None)

\* a merge step with both units given
ReverseNeverTaken ==
    (Merging /\ CurParsed.unit /= <<>> /\ Existing.unit /= <<>>) =>
        LET u == CurParsed.unit
            e == Existing.unit
            converted == _try_convert(CurParsed.qty, u, e)
            converted_rev == _try_convert(Existing.qty, e, u)
            after == merged'[IndexOfKey(merged, CurKey)]
        IN  /\ (converted = None) <=> (converted_rev = None)
            /\ after.unit = e \/ after.unit = e \o <<"+">> \o u
            /\ after.unit = u => u = e

C13_ReverseBranchDead == []SymmetricNone /\ [][ReverseNeverTaken]_vars

\* "2 t o" then "1 c O": tsp and cup convert in neither direction, the unit is "tsp+cup"
C13_Witness ==
    /\ pc = "loop"
    /\ \E i \in 1..Len(merged) :
           /\ merged[i].raw_sources =
                  << <<"2", " ", "t", " ", "o">>, <<"1", " ", "c", " ", "O">> >>
           /\ merged[i].unit = tsp \o <<"+">> \o cup
    /\ _try_convert(Rat(1, 1), cup, tsp) = None
    /\ _try_convert(Rat(2, 1), tsp, cup) = None

(***************************************************************************)
(* grocery_list_ui.  A run of the script starts at pc = "run", calls       *)
(* combine_ingredients by the steps of its loops, and from its return      *)
(* either handles the widget the run was started with and ends in          *)
(* st.rerun(), or goes to the end and shows the summary caption.  Between  *)
(* runs the user presses a button, clicks a checkbox, or changes the meal  *)
(* plan.  The dict grocery_checked is a set of <<key, flag>> rows with one *)
(* row per key.                                                            *)
(***************************************************************************)
MaxRecipes == 2

\* the recipes of the meal plan: one ingredient line each
ListLines ==
    { <<"1", " ", "c", " ", "O">>,
      <<"1", " ", "c", " ", "o", "\r", ".">>,
      <<"1", " ", "c", " ", "o", "\t", "b">>,
      <<"2">>,
      <<NineRun, " ", "g", " ", "o">> }

\* key = item["name"].lower()
FlagKey(item) == lower(item.name)

\* grocery_checked.get(key, False)
Flag(checked, key) == Get(checked, key, FALSE)

\* grocery_checked[key] = value
SetFlag(checked, key, value) == {e \in checked : e[1] /= key} \cup {<<key, value>>}

\* `for item in items: grocery_checked[item["name"].lower()] = True`
RECURSIVE CheckAll(_, _)
CheckAll(checked, list) ==
    IF list = <<>> THEN checked
    ELSE CheckAll(SetFlag(checked, FlagKey(Head(list)), TRUE), Tail(list))

\* sum(1 for item in items if grocery_checked.get(item["name"].lower(), False))
CountDone(checked, list) ==
    Cardinality({i \in 1..Len(list) : Flag(checked, FlagKey(list[i]))})

\* the page is first opened on an empty meal plan
InitUI ==
    /\ pc = "run"
    /\ recipes = <<>>
    /\ ri = 1 /\ li = 1 /\ merged = <<>> /\ result = <<>>
    /\ IdleParse /\ IdleConvert /\ IdleUI

\* the script is at rest: the list is shown, or st.info, or the traceback
AtRest == pc \in {"shown", "info", "raised"}

\* `if not recipes`: st.info and return
RunInfo ==
    /\ pc = "run"
    /\ recipes = <<>>
    /\ pc' = "info"
    /\ UNCHANGED <<recipes, ri, li, merged, result, text, parsed, cqty, cfrom, cto, cret,
                   uiVars>>

\* `items = combine_ingredients(recipes)`: the call
RunCombine ==
    /\ pc = "run"
    /\ recipes /= <<>>
    /\ pc' = "loop"
    /\ ri' = 1 /\ li' = 1 /\ merged' = <<>> /\ result' = <<>>
    /\ UNCHANGED <<recipes, text, parsed, cqty, cfrom, cto, cret, uiVars>>

\* `if st.button("Select All")` in the run the press has started
HandleSelectAll ==
    /\ pc = "done"
    /\ event.widget = "select"
    /\ items' = result
    /\ grocery_checked' = CheckAll(grocery_checked, items')
    /\ event' = NoEvent
    /\ last' = "select"
    /\ pc' = "run"
    /\ UNCHANGED <<recipes, ri, li, merged, result, text, parsed, cqty, cfrom, cto, cret,
                   done, total>>

\* `if st.button("Clear All")` in the run the press has started
HandleClearAll ==
    /\ pc = "done"
    /\ event.widget = "clear"
    /\ items' = result
    /\ grocery_checked' = {}
    /\ event' = NoEvent
    /\ last' = "clear"
    /\ pc' = "run"
    /\ UNCHANGED <<recipes, ri, li, merged, result, text, parsed, cqty, cfrom, cto, cret,
                   done, total>>

\* the list loop in the run a click has started: new_val != checked at the clicked item
HandleCheckbox ==
    /\ pc = "done"
    /\ event.widget = "checkbox"
    /\ items' = result
    /\ LET key == FlagKey(items'[event.index])
           checked == Flag(grocery_checked, key)
       IN  grocery_checked' = SetFlag(grocery_checked, key, ~checked)
    /\ event' = NoEvent
    /\ last' = "toggle"
    /\ pc' = "run"
    /\ UNCHANGED <<recipes, ri, li, merged, result, text, parsed, cqty, cfrom, cto, cret,
                   done, total>>

\* a run with no widget touched: every checkbox returns its value, the caption is shown
ShowSummary ==
    /\ pc = "done"
    /\ event.widget = "none"
    /\ items' = result
    /\ total' = Len(items')
    /\ done' = CountDone(grocery_checked, items')
    /\ pc' = "shown"
    /\ UNCHANGED <<recipes, ri, li, merged, result, text, parsed, cqty, cfrom, cto, cret,
                   grocery_checked, event, last>>

\* the user presses "Select All"
PressSelectAll ==
    /\ pc = "shown"
    /\ event' = [widget |-> "select", index |-> 0]
    /\ pc' = "run"
    /\ UNCHANGED <<recipes, ri, li, merged, result, text, parsed, cqty, cfrom, cto, cret,
                   grocery_checked, items, last, done, total>>

\* the user presses "Clear All"
PressClearAll ==
    /\ pc = "shown"
    /\ event' = [widget |-> "clear", index |-> 0]
    /\ pc' = "run"
    /\ UNCHANGED <<recipes, ri, li, merged, result, text, parsed, cqty, cfrom, cto, cret,
                   grocery_checked, items, last, done, total>>

\* the user clicks the checkbox of a listed item
ClickCheckbox ==
    /\ pc = "shown"
    /\ \E i \in 1..Len(items) : event' = [widget |-> "checkbox", index |-> i]
    /\ pc' = "run"
    /\ UNCHANGED <<recipes, ri, li, merged, result, text, parsed, cqty, cfrom, cto, cret,
                   grocery_checked, items, last, done, total>>

\* a recipe is added to the meal plan, at any place of the list
AddRecipe ==
    /\ AtRest
    /\ Len(recipes) < MaxRecipes
    /\ \E line \in ListLines, k \in 0..Len(recipes) :
           recipes' = SubSeq(recipes, 1, k) \o << <<line>> >>
                          \o SubSeq(recipes, k + 1, Len(recipes))
    /\ last' = "pool"
    /\ pc' = "run"
    /\ UNCHANGED <<ri, li, merged, result, text, parsed, cqty, cfrom, cto, cret,
                   grocery_checked, items, event, done, total>>

\* a recipe is taken off the meal plan
RemoveRecipe ==
    /\ AtRest
    /\ \E k \in 1..Len(recipes) :
           recipes' = SubSeq(recipes, 1, k - 1) \o SubSeq(recipes, k + 1, Len(recipes))
    /\ last' = "pool"
    /\ pc' = "run"
    /\ UNCHANGED <<ri, li, merged, result, text, parsed, cqty, cfrom, cto, cret,
                   grocery_checked, items, event, done, total>>

NextUI ==
    \/ RunInfo \/ RunCombine
    \/ Next
    \/ HandleSelectAll \/ HandleClearAll \/ HandleCheckbox \/ ShowSummary
    \/ PressSelectAll \/ PressClearAll \/ ClickCheckbox
    \/ AddRecipe \/ RemoveRecipe

SpecUI == InitUI /\ [][NextUI]_vars

(***************************************************************************)
(* C14.  In grocery_list_ui the checklist is keyed by the same lowercased  *)
(* item name the aggregator groups by, so distinct listed items never      *)
(* share a checked flag; after any sequence of checkbox clicks, "Select    *)
(* All", "Clear All" and changes of the recipes, the summary has           *)
(* 0 <= done <= total, done = total on the render right after "Select      *)
(* All", done = 0 on the render right after "Clear All"; and a click on    *)
(* one item changes the flag of that item alone.                           *)
(***************************************************************************)
\* the key of the flag of every listed item is the grouping key of the item
KeyedByGroupKey == \A i \in 1..Len(items) : FlagKey(items[i]) = KeyOf(items[i].name)

DistinctFlags ==
    \A i, j \in 1..Len(items) : i /= j => FlagKey(items[i]) /= FlagKey(items[j])

SummaryInRange ==
    pc = "shown" =>
        /\ 0 <= done /\ done <= total
        /\ last = "select" => done = total
        /\ last = "clear" => done = 0

\* the keys that have or get a flag in the step
FlagKeys == {e[1] : e \in grocery_checked \cup grocery_checked'}

ClickFlipsOne ==
    (pc = "done" /\ event.widget = "checkbox") =>
        LET key == FlagKey(result[event.index])
        IN  /\ Flag(grocery_checked', key) = ~Flag(grocery_checked, key)
            /\ \A k \in FlagKeys \ {key} : Flag(grocery_checked', k) = Flag(grocery_checked, k)

C14_ChecklistByGroupKey ==
    /\ [](KeyedByGroupKey /\ DistinctFlags /\ SummaryInRange)
    /\ [][ClickFlipsOne]_vars


====
